---- MODULE Spec2Model ----
(***************************************************************************)
(* XmlNode / XmlSubNode of src/xmpp/xmpp_stanza.{hpp,cpp}.                 *)
(*                                                                         *)
(* Every XmlNode object the program creates is a slot of the arena `nodes`.*)
(* A slot's index is the object's address: a pointer (parent, the elements *)
(* of children, parent_to_add) is an index, Null is nullptr, and an index  *)
(* is never reused, so a pointer to a destroyed object stays visible as a  *)
(* pointer to a "dead" slot.  A std::string is a sequence of characters; a *)
(* character is a one-character string, or a named byte ("SOH" is '\1').   *)
(***************************************************************************)
EXTENDS Integers, Sequences, FiniteSets

\* Bounds of the six specifications: the number of XmlNode objects ever
\* constructed in a run and the number of mutating calls in a run (for
\* SpecText, the number of both together).
MaxNodes == 3
MaxBuilderNodes == 4
MaxBuilderEdits == 1
MaxScopeNodes == 5
MaxScopeEdits == 1
MaxCopyNodes == 4
MaxCopyEdits == 1
MaxTextCalls == 4
MaxNameNodes == 2
MaxNameEdits == 1

VARIABLES
  nodes,   \* arena: address -> object (see BlankNode for the fields)
  stack,   \* addresses of the objects of automatic storage, in construction order
  edits,   \* number of mutations applied so far
  subs,    \* per XmlSubNode ever built: [P |-> its parent_to_add, r |-> the node its destructor attached]
  copied,  \* the most recent copy: [src |-> the node copied, dst |-> its copy]
  last,    \* the call that produced this state: [op, P (receiver), c (node argument), r (result), arg (string argument)]
  out      \* the text the call returned, if it was to_string; empty otherwise

vars == <<nodes, stack, edits, subs, copied, last, out>>

Null == 0

Range(s) == {s[i] : i \in 1..Len(s)}

SetMin(S) == CHOOSE x \in S : \A y \in S : x <= y

(***************************************************************************)
(* Storage states of a slot: "free" (not yet constructed), "auto" (an      *)
(* XmlNode of automatic storage), "sub" (an XmlSubNode of automatic        *)
(* storage), "heap" (an XmlNode owned by a std::unique_ptr: the caller's,  *)
(* or an element of some children vector), "dead" (destroyed).             *)
(***************************************************************************)
BlankNode(state) ==
  [st |-> state, name |-> <<>>, parent |-> Null, attributes |-> <<>>,
   children |-> <<>>, inner |-> <<>>, tail |-> <<>>, parent_to_add |-> Null]

Live(ns) == {i \in DOMAIN ns : ns[i].st \in {"auto", "sub", "heap"}}

FreeIds(ns) == {i \in DOMAIN ns : ns[i].st = "free"}

\* The address the next construction gets.
NextFree(ns) == SetMin(FreeIds(ns))

\* c is an element of some live node's children vector.
Owned(ns, c) == \E p \in Live(ns) : c \in Range(ns[p].children)

\* The heap nodes whose std::unique_ptr the caller holds.
Handles(ns) == {h \in Live(ns) : ns[h].st = "heap" /\ ~Owned(ns, h)}

\* The nodes reachable from n through children vectors, n included.
RECURSIVE Reach(_, _, _)
Reach(ns, frontier, seen) ==
  IF frontier = {} THEN seen
  ELSE LET n == CHOOSE x \in frontier : TRUE
           kids == Range(ns[n].children) \ (seen \cup {n})
       IN Reach(ns, (frontier \ {n}) \cup kids, seen \cup {n})

Tree(ns, n) == Reach(ns, {n}, {})

\* The proper descendants of n.
Below(ns, n) == Reach(ns, Range(ns[n].children), {})

Acyclic(ns, n) == \A m \in Tree(ns, n) : m \notin Below(ns, m)

(***************************************************************************)
(* Text.  A std::string is a sequence of bytes (0..255).  Literals are     *)
(* written with Str, one character per element; "SOH" is the byte '\1',    *)
(* the separator the constructor splits at, and "0xE9" is a lone Latin-1   *)
(* byte (e acute), which is not valid UTF-8 on its own.                    *)
(***************************************************************************)
Code(ch) ==
  CASE ch = "SOH" -> 1   [] ch = "TAB" -> 9   [] ch = " " -> 32
    [] ch = "\"" -> 34   [] ch = "&" -> 38    [] ch = "'" -> 39
    [] ch = "/" -> 47    [] ch = "3" -> 51    [] ch = ":" -> 58
    [] ch = ";" -> 59    [] ch = "<" -> 60    [] ch = "=" -> 61
    [] ch = ">" -> 62    [] ch = "@" -> 64
    [] ch = "a" -> 97    [] ch = "b" -> 98    [] ch = "c" -> 99
    [] ch = "d" -> 100   [] ch = "e" -> 101   [] ch = "f" -> 102
    [] ch = "g" -> 103   [] ch = "h" -> 104   [] ch = "i" -> 105
    [] ch = "l" -> 108   [] ch = "m" -> 109   [] ch = "n" -> 110
    [] ch = "o" -> 111   [] ch = "p" -> 112   [] ch = "q" -> 113
    [] ch = "s" -> 115   [] ch = "t" -> 116   [] ch = "u" -> 117
    [] ch = "v" -> 118   [] ch = "x" -> 120   [] ch = "y" -> 121
    [] ch = "0xA9" -> 169 [] ch = "0xC3" -> 195 [] ch = "0xE9" -> 233

Str(chars) == [i \in 1..Len(chars) |-> Code(chars[i])]

\* s[from..] (std::string::substr(from)), 1-based.
Suffix(s, from) == SubSeq(s, from, Len(s))

\* std::string operator< : lexicographic on bytes.
RECURSIVE StrLess(_, _)
StrLess(s, t) ==
  IF t = <<>> THEN FALSE
  ELSE IF s = <<>> THEN TRUE
  ELSE IF s[1] # t[1] THEN s[1] < t[1]
  ELSE StrLess(Tail(s), Tail(t))

\* The string literals of the source.
Amp == Str(<<"&", "a", "m", "p", ";">>)
Lt == Str(<<"&", "l", "t", ";">>)
Gt == Str(<<"&", "g", "t", ";">>)
Quot == Str(<<"&", "q", "u", "o", "t", ";">>)
Apos == Str(<<"&", "a", "p", "o", "s", ";">>)
Open == Str(<<"<">>)
Space == Str(<<" ">>)
EqQuote == Str(<<"=", "'">>)
Quote == Str(<<"'">>)
SelfClose == Str(<<"/", ">">>)
Close == Str(<<">">>)
OpenEnd == Str(<<"<", "/">>)

\* The replacement of one byte by xml_escape's switch.
EscapeChar(b) ==
  CASE b = Code("&") -> Amp
    [] b = Code("<") -> Lt
    [] b = Code(">") -> Gt
    [] b = Code("\"") -> Quot
    [] b = Code("'") -> Apos
    [] OTHER -> <<b>>

RECURSIVE xml_escape(_)
xml_escape(data) ==
  IF data = <<>> THEN <<>>
  ELSE EscapeChar(data[1]) \o xml_escape(Tail(data))

(***************************************************************************)
(* utils::is_valid_utf8, utils::convert_to_utf8 and                        *)
(* utils::remove_invalid_xml_chars are not part of the source at hand;     *)
(* they are modelled from the specification's description of them: UTF-8   *)
(* well-formedness, ISO-8859-1 -> UTF-8, and the XML 1.0 Char production.  *)
(***************************************************************************)
IsCont(b) == 128 <= b /\ b <= 191

\* Length of the UTF-8 sequence a lead byte announces; 0 for no lead byte.
SeqLen(b) ==
  IF b < 128 THEN 1
  ELSE IF 194 <= b /\ b <= 223 THEN 2
  ELSE IF 224 <= b /\ b <= 239 THEN 3
  ELSE IF 240 <= b /\ b <= 244 THEN 4
  ELSE 0

RECURSIVE is_valid_utf8(_)
is_valid_utf8(s) ==
  IF s = <<>> THEN TRUE
  ELSE LET n == SeqLen(s[1])
       IN /\ n # 0
          /\ n <= Len(s)
          /\ \A i \in 2..n : IsCont(s[i])
          /\ is_valid_utf8(Suffix(s, n + 1))

\* ISO-8859-1 (the default encoding of sanitize) to UTF-8.
RECURSIVE convert_to_utf8(_)
convert_to_utf8(s) ==
  IF s = <<>> THEN <<>>
  ELSE (IF s[1] < 128 THEN <<s[1]>>
        ELSE <<192 + (s[1] \div 64), 128 + (s[1] % 64)>>)
       \o convert_to_utf8(Tail(s))

\* The code point of the UTF-8 sequence s[1..n].
CodePoint(s, n) ==
  CASE n = 1 -> s[1]
    [] n = 2 -> (s[1] % 32) * 64 + (s[2] % 64)
    [] n = 3 -> (s[1] % 16) * 4096 + (s[2] % 64) * 64 + (s[3] % 64)
    [] OTHER -> (s[1] % 8) * 262144 + (s[2] % 64) * 4096 + (s[3] % 64) * 64 + (s[4] % 64)

\* XML 1.0: Char ::= #x9 | #xA | #xD | [#x20-#xD7FF] | [#xE000-#xFFFD] | [#x10000-#x10FFFF]
IsXmlChar(cp) ==
  \/ cp \in {9, 10, 13}
  \/ 32 <= cp /\ cp <= 55295
  \/ 57344 <= cp /\ cp <= 65533
  \/ 65536 <= cp /\ cp <= 1114111

\* Applied to valid UTF-8 only.
RECURSIVE remove_invalid_xml_chars(_)
remove_invalid_xml_chars(s) ==
  IF s = <<>> THEN <<>>
  ELSE LET n == SeqLen(s[1])
       IN (IF IsXmlChar(CodePoint(s, n)) THEN SubSeq(s, 1, n) ELSE <<>>)
          \o remove_invalid_xml_chars(Suffix(s, n + 1))

sanitize(data) ==
  IF is_valid_utf8(data)
  THEN xml_escape(remove_invalid_xml_chars(data))
  ELSE xml_escape(remove_invalid_xml_chars(convert_to_utf8(data)))

(***************************************************************************)
(* std::map<std::string, std::string>: a sequence of [key, val] in         *)
(* ascending key order, which is the order its iteration visits.           *)
(***************************************************************************)
HasKey(m, k) == \E i \in 1..Len(m) : m[i].key = k

\* A map that would keep its entries in the order of insertion.
MapPutLast(m, k, v) ==
  IF HasKey(m, k)
  THEN [i \in 1..Len(m) |-> IF m[i].key = k THEN [key |-> k, val |-> v] ELSE m[i]]
  ELSE Append(m, [key |-> k, val |-> v])

\* m[k] = v : overwrite the value of an existing key, or insert at the key's place.
MapPut(m, k, v) ==
  IF HasKey(m, k)
  THEN [i \in 1..Len(m) |-> IF m[i].key = k THEN [key |-> k, val |-> v] ELSE m[i]]
  ELSE LET before == SelectSeq(m, LAMBDA e : StrLess(e.key, k))
           after == SelectSeq(m, LAMBDA e : StrLess(k, e.key))
       IN before \o <<[key |-> k, val |-> v]>> \o after

\* m.erase(k)
MapErase(m, k) == SelectSeq(m, LAMBDA e : e.key # k)

\* m.at(k), with get_tag's default for an absent key.
MapGet(m, k) ==
  IF HasKey(m, k) THEN m[CHOOSE i \in 1..Len(m) : m[i].key = k].val ELSE <<>>

Xmlns == Str(<<"x", "m", "l", "n", "s">>)

Sep == Code("SOH")

(***************************************************************************)
(* Constructors.                                                           *)
(***************************************************************************)
\* A search that would stop at the first occurrence.
find_first(s, b) ==
  IF \E i \in 1..Len(s) : s[i] = b
  THEN SetMin({i \in 1..Len(s) : s[i] = b})
  ELSE 0

\* std::string::rfind('\1'): the last position of the separator, 0 for npos.
rfind(s, b) ==
  IF \E i \in 1..Len(s) : s[i] = b
  THEN CHOOSE i \in 1..Len(s) : s[i] = b /\ \A j \in (i + 1)..Len(s) : s[j] # b
  ELSE 0

\* XmlNode(const std::string& name, XmlNode* parent)
XmlNode_name(storage, nm, par) ==
  LET n == rfind(nm, Sep)
  IN IF n = 0
     THEN [BlankNode(storage) EXCEPT !.name = nm, !.parent = par]
     ELSE [BlankNode(storage) EXCEPT
             !.name = Suffix(nm, n + 1),
             !.attributes = MapPut(<<>>, Xmlns, SubSeq(nm, 1, n - 1)),
             !.parent = par]

\* XmlNode(const std::string& xmlns, const std::string& name, XmlNode* parent)
XmlNode_ns_name(storage, xmlns, nm, par) ==
  [BlankNode(storage) EXCEPT
     !.name = nm, !.parent = par, !.attributes = MapPut(<<>>, Xmlns, xmlns)]

\* A move that would take the name and leave the rest behind.
MovedToNameOnly(storage, src) ==
  [BlankNode(storage) EXCEPT !.name = src.name, !.parent = src.parent]

\* XmlNode(XmlNode&&) = default: member-wise move.  The new object takes the
\* strings, the map and the vector (the same child objects, whose parent
\* fields are not touched) and copies the parent pointer.
MovedTo(storage, src) ==
  [BlankNode(storage) EXCEPT
     !.name = src.name, !.parent = src.parent, !.attributes = src.attributes,
     !.children = src.children, !.inner = src.inner, !.tail = src.tail]

\* What the move leaves behind: empty strings, map and vector.
MovedFrom(src) ==
  [src EXCEPT !.name = <<>>, !.attributes = <<>>, !.children = <<>>,
              !.inner = <<>>, !.tail = <<>>]

\* An add_child that would put the child first.
add_child_front(ns, P, c) ==
  [ns EXCEPT ![c].parent = P, ![P].children = <<c>> \o @]

(***************************************************************************)
(* add_child, first overload: XmlNode* add_child(std::unique_ptr<XmlNode>) *)
(***************************************************************************)
add_child_ptr(ns, P, c) ==
  [ns EXCEPT ![c].parent = P, ![P].children = Append(@, c)]

(***************************************************************************)
(* XmlNode(const XmlNode&): the fields but the parent, then a copy of each *)
(* child, made on the heap and added with add_child.  Objects are          *)
(* constructed in pre-order, each at the next free address, so the copy of *)
(* src is at NextFree(ns); the result is the arena with the copy in it.    *)
(***************************************************************************)
RECURSIVE CopyNode(_, _, _)
RECURSIVE CopyChildren(_, _, _, _)
CopyChildren(ns, kids, i, this) ==
  IF i > Len(kids) THEN ns
  ELSE CopyChildren(add_child_ptr(CopyNode(ns, kids[i], "heap"), this, NextFree(ns)),
                    kids, i + 1, this)

\* A copy that would share the source's children.
CopyNodeShallow(ns, src, storage) ==
  [ns EXCEPT ![NextFree(ns)] =
     [BlankNode(storage) EXCEPT
        !.name = ns[src].name, !.attributes = ns[src].attributes,
        !.children = ns[src].children,
        !.inner = ns[src].inner, !.tail = ns[src].tail]]

CopyNode(ns, src, storage) ==
  CopyChildren([ns EXCEPT ![NextFree(ns)] =
                  [BlankNode(storage) EXCEPT
                     !.name = ns[src].name, !.attributes = ns[src].attributes,
                     !.inner = ns[src].inner, !.tail = ns[src].tail]],
               ns[src].children, 1, NextFree(ns))

\* XmlNode* add_child(XmlNode&& child)
add_child_move(ns, P, c) ==
  LET new_node == NextFree(ns)
      moved == [ns EXCEPT ![new_node] = MovedTo("heap", ns[c]),
                          ![c] = MovedFrom(ns[c])]
  IN add_child_ptr(moved, P, new_node)

\* XmlNode* add_child(const XmlNode& child)
add_child_copy(ns, P, c) ==
  add_child_ptr(CopyNode(ns, c, "heap"), P, NextFree(ns))

\* ~XmlNode() = default: the children vector's unique_ptrs destroy the subtree.
Destroy(ns, doomed) ==
  [i \in DOMAIN ns |-> IF i \in doomed THEN BlankNode("dead") ELSE ns[i]]

\* A live XmlSubNode holds a reference to one of these objects.
Referenced(ns, S) == \E s \in Live(ns) : ns[s].st = "sub" /\ ns[s].parent_to_add \in S

(***************************************************************************)
(* Accessors.                                                              *)
(***************************************************************************)
get_parent(ns, n) == ns[n].parent

get_name(ns, n) == ns[n].name

has_children(ns, n) == ns[n].children # <<>>

get_tag(ns, n, k) == MapGet(ns[n].attributes, k)

get_last_child(ns, n) == ns[n].children[Len(ns[n].children)]

(***************************************************************************)
(* std::string XmlNode::to_string() const                                  *)
(***************************************************************************)
RECURSIVE Concat(_)
Concat(ss) == IF ss = <<>> THEN <<>> ELSE ss[1] \o Concat(Tail(ss))

AttributeText(e) == Space \o e.key \o EqQuote \o sanitize(e.val) \o Quote

RECURSIVE to_string(_, _)
\* A rendering that would leave the tail out.
to_string_without_tail(ns, n) ==
  LET this == ns[n]
  IN Open \o this.name
     \o Concat([i \in 1..Len(this.attributes) |-> AttributeText(this.attributes[i])])
     \o (IF ~has_children(ns, n) /\ this.inner = <<>>
         THEN SelfClose
         ELSE Close \o sanitize(this.inner)
              \o Concat([i \in 1..Len(this.children) |-> to_string(ns, this.children[i])])
              \o OpenEnd \o get_name(ns, n) \o Close)

\* std::string XmlNode::to_string() const
to_string(ns, n) ==
  LET this == ns[n]
  IN Open \o this.name
     \o Concat([i \in 1..Len(this.attributes) |-> AttributeText(this.attributes[i])])
     \o (IF ~has_children(ns, n) /\ this.inner = <<>>
         THEN SelfClose
         ELSE Close \o sanitize(this.inner)
              \o Concat([i \in 1..Len(this.children) |-> to_string(ns, this.children[i])])
              \o OpenEnd \o get_name(ns, n) \o Close)
     \o sanitize(this.tail)

(***************************************************************************)
(* The calls a program makes.  `io` bounds a run and names the strings its *)
(* calls are made with:                                                    *)
(*   [nodes, edits, calls, storages, names, uris, keys, vals, texts].      *)
(***************************************************************************)
Call(op, P, c, r, arg) == [op |-> op, P |-> P, c |-> c, r |-> r, arg |-> arg]

SubNodes(ns) == {s \in Live(ns) : ns[s].st = "sub"}

\* The objects constructed so far.
Made(ns) == DOMAIN ns \ FreeIds(ns)

\* k more objects can be constructed, keeping one address for the node each
\* live XmlSubNode's destructor will make.
CanMake(io, k) ==
  /\ Cardinality(FreeIds(nodes)) - Cardinality(SubNodes(nodes)) >= k
  /\ Cardinality(Made(nodes)) + edits + k <= io.calls

CanEdit(io) ==
  /\ edits < io.edits
  /\ Cardinality(Made(nodes)) + edits < io.calls

\* A constructor call: the object `made` at the next free address.
Constructed(op, made, arg) ==
  LET this == NextFree(nodes)
  IN /\ nodes' = [nodes EXCEPT ![this] = made]
     /\ stack' = IF made.st = "heap" THEN stack ELSE Append(stack, this)
     /\ subs' = IF made.st = "sub"
                THEN [subs EXCEPT ![this] = [P |-> made.parent_to_add, r |-> Null]]
                ELSE subs
     /\ last' = Call(op, Null, Null, this, arg)
     /\ out' = <<>>
     /\ UNCHANGED copied
     /\ UNCHANGED edits

\* XmlNode(name)
NewByName(io) ==
  /\ CanMake(io, 1)
  /\ \E storage \in io.storages, nm \in io.names :
       Constructed("XmlNode(name)", XmlNode_name(storage, nm, Null), nm)

\* XmlNode(name, parent)
NewByNameParent(io) ==
  /\ CanMake(io, 1)
  /\ \E storage \in io.storages, nm \in io.names, par \in Live(nodes) :
       Constructed("XmlNode(name,parent)", XmlNode_name(storage, nm, par), nm)

\* XmlNode(xmlns, name)
NewByNsName(io) ==
  /\ CanMake(io, 1)
  /\ \E storage \in io.storages, uri \in io.uris, nm \in io.names :
       Constructed("XmlNode(xmlns,name)", XmlNode_ns_name(storage, uri, nm, Null), nm)

\* XmlNode(xmlns, name, parent)
NewByNsNameParent(io) ==
  /\ CanMake(io, 1)
  /\ \E storage \in io.storages, uri \in io.uris, nm \in io.names, par \in Live(nodes) :
       Constructed("XmlNode(xmlns,name,parent)", XmlNode_ns_name(storage, uri, nm, par), nm)

\* XmlSubNode(parent_ref, name)
NewSubNode(io) ==
  /\ CanMake(io, 2)
  /\ \E P \in Live(nodes), nm \in io.names :
       Constructed("XmlSubNode(parent,name)",
                   [XmlNode_name("sub", nm, Null) EXCEPT !.parent_to_add = P], nm)

\* XmlSubNode(parent_ref, xmlns, name)
NewSubNodeNs(io) ==
  /\ CanMake(io, 2)
  /\ \E P \in Live(nodes), uri \in io.uris, nm \in io.names :
       Constructed("XmlSubNode(parent,xmlns,name)",
                   [XmlNode_ns_name("sub", uri, nm, Null) EXCEPT !.parent_to_add = P], nm)

\* XmlNode copy(node), on the stack or with std::make_unique.  Copying a node
\* that is its own descendant does not return.
CopyConstruct(io) ==
  \E c \in Live(nodes), storage \in io.storages :
    /\ Acyclic(nodes, c)
    /\ CanMake(io, Cardinality(Tree(nodes, c)))
    /\ nodes' = CopyNode(nodes, c, storage)
    /\ stack' = IF storage = "heap" THEN stack ELSE Append(stack, NextFree(nodes))
    /\ last' = Call("XmlNode(const&)", Null, c, NextFree(nodes), <<>>)
    /\ copied' = [src |-> c, dst |-> NextFree(nodes)]
    /\ out' = <<>>
  /\ UNCHANGED <<edits, subs>>

\* XmlNode moved(std::move(node)), on the stack or with std::make_unique.
MoveConstruct(io) ==
  /\ CanMake(io, 1)
  /\ \E c \in Live(nodes), storage \in io.storages :
       LET this == NextFree(nodes)
       IN /\ nodes' = [nodes EXCEPT ![this] = MovedTo(storage, nodes[c]),
                                    ![c] = MovedFrom(nodes[c])]
          /\ stack' = IF storage = "heap" THEN stack ELSE Append(stack, this)
          /\ last' = Call("XmlNode(&&)", Null, c, this, <<>>)
  /\ out' = <<>>
  /\ UNCHANGED copied
  /\ UNCHANGED <<edits, subs>>

\* P.add_child(std::move(handle)): any unique_ptr the caller holds.
AddChildPtr ==
  /\ \E P \in Live(nodes), c \in Handles(nodes) :
       /\ nodes' = add_child_ptr(nodes, P, c)
       /\ last' = Call("add_child(unique_ptr)", P, c, c, <<>>)
  /\ out' = <<>>
  /\ UNCHANGED copied
  /\ UNCHANGED <<stack, edits, subs>>

\* P.add_child(std::make_unique<XmlNode>(name)): the child is constructed and
\* handed over in one expression.
AddNewChild(io) ==
  /\ CanMake(io, 1)
  /\ \E P \in Live(nodes), nm \in io.names :
       LET c == NextFree(nodes)
       IN /\ nodes' = add_child_ptr([nodes EXCEPT ![c] = XmlNode_name("heap", nm, Null)], P, c)
          /\ last' = Call("add_child(unique_ptr)", P, c, c, nm)
  /\ out' = <<>>
  /\ UNCHANGED copied
  /\ UNCHANGED <<stack, edits, subs>>

\* P.add_child(std::move(node))
AddChildMove(io) ==
  /\ CanMake(io, 1)
  /\ \E P \in Live(nodes), c \in Live(nodes) :
       /\ nodes' = add_child_move(nodes, P, c)
       /\ last' = Call("add_child(&&)", P, c, NextFree(nodes), <<>>)
  /\ out' = <<>>
  /\ UNCHANGED copied
  /\ UNCHANGED <<stack, edits, subs>>

\* P.add_child(node)
AddChildCopy(io) ==
  /\ \E c \in Live(nodes) :
       /\ Acyclic(nodes, c)
       /\ CanMake(io, Cardinality(Tree(nodes, c)))
       /\ \E P \in Live(nodes) :
            /\ nodes' = add_child_copy(nodes, P, c)
            /\ last' = Call("add_child(const&)", P, c, NextFree(nodes), <<>>)
            /\ copied' = [src |-> c, dst |-> NextFree(nodes)]
  /\ out' = <<>>
  /\ UNCHANGED <<stack, edits, subs>>

\* A mutation of the one node n.
Edited(op, n, changed, arg) ==
  /\ nodes' = [nodes EXCEPT ![n] = changed]
  /\ edits' = edits + 1
  /\ last' = Call(op, n, Null, Null, arg)
  /\ out' = <<>>
  /\ UNCHANGED copied
  /\ UNCHANGED <<stack, subs>>

SetAttribute(io) ==
  /\ CanEdit(io)
  /\ \E n \in Live(nodes), k \in io.keys, v \in io.vals :
       Edited("set_attribute", n,
              [nodes[n] EXCEPT !.attributes = MapPut(@, k, v)], k)

\* node[name] = value: operator[] makes the entry, the assignment fills it.
Index(io) ==
  /\ CanEdit(io)
  /\ \E n \in Live(nodes), k \in io.keys, v \in io.vals :
       Edited("operator[]", n,
              [nodes[n] EXCEPT
                 !.attributes = MapPut(MapPut(@, k, MapGet(@, k)), k, v)], k)

DelTag(io) ==
  /\ CanEdit(io)
  /\ \E n \in Live(nodes), k \in io.keys :
       Edited("del_tag", n, [nodes[n] EXCEPT !.attributes = MapErase(@, k)], k)

SetTail(io) ==
  /\ CanEdit(io)
  /\ \E n \in Live(nodes), data \in io.texts :
       Edited("set_tail", n, [nodes[n] EXCEPT !.tail = data], data)

AddToTail(io) ==
  /\ CanEdit(io)
  /\ \E n \in Live(nodes), data \in io.texts :
       Edited("add_to_tail", n, [nodes[n] EXCEPT !.tail = @ \o data], data)

SetInner(io) ==
  /\ CanEdit(io)
  /\ \E n \in Live(nodes), data \in io.texts :
       Edited("set_inner", n, [nodes[n] EXCEPT !.inner = data], data)

AddToInner(io) ==
  /\ CanEdit(io)
  /\ \E n \in Live(nodes), data \in io.texts :
       Edited("add_to_inner", n, [nodes[n] EXCEPT !.inner = @ \o data], data)

\* Both overloads of set_name store the string as given.
SetName(io) ==
  /\ CanEdit(io)
  /\ \E n \in Live(nodes), nm \in io.names :
       Edited("set_name", n, [nodes[n] EXCEPT !.name = nm], nm)

\* children.clear().  Destroying an object a live XmlSubNode refers to makes
\* that XmlSubNode's destructor undefined; programs do not do it.
DeleteAllChildren(io) ==
  /\ CanEdit(io)
  /\ \E n \in Live(nodes) :
       /\ has_children(nodes, n)
       /\ n \notin Below(nodes, n)
       /\ ~Referenced(nodes, Below(nodes, n))
       /\ nodes' = [Destroy(nodes, Below(nodes, n)) EXCEPT ![n].children = <<>>]
       /\ last' = Call("delete_all_children", n, Null, Null, <<>>)
  /\ edits' = edits + 1
  /\ out' = <<>>
  /\ UNCHANGED copied
  /\ UNCHANGED <<stack, subs>>

(***************************************************************************)
(* The end of the innermost scope: the most recently constructed object of *)
(* automatic storage is destroyed.  ~XmlSubNode() moves the object into    *)
(* parent_to_add.add_child and then destroys what is left of it.           *)
(***************************************************************************)
Innermost(stk) == stk[Len(stk)]

ScopeExit ==
  /\ stack # <<>>
  /\ LET this == Innermost(stack)
     IN IF nodes[this].st = "sub"
        THEN LET P == nodes[this].parent_to_add
                 attached == add_child_move(nodes, P, this)
             IN /\ nodes' = Destroy(attached, Tree(attached, this))
                /\ subs' = [subs EXCEPT ![this].r = NextFree(nodes)]
                /\ last' = Call("~XmlSubNode", P, this, NextFree(nodes), <<>>)
        ELSE /\ ~Referenced(nodes, Tree(nodes, this))
             /\ nodes' = Destroy(nodes, Tree(nodes, this))
             /\ subs' = subs
             /\ last' = Call("~XmlNode", Null, this, Null, <<>>)
  /\ stack' = SubSeq(stack, 1, Len(stack) - 1)
  /\ out' = <<>>
  /\ UNCHANGED copied
  /\ UNCHANGED edits

\* n.to_string(); it does not return for a node that is its own descendant.
ToString ==
  /\ \E n \in Live(nodes) :
       /\ Acyclic(nodes, n)
       /\ out' = to_string(nodes, n)
       /\ last' = Call("to_string", n, Null, Null, <<>>)
  /\ UNCHANGED <<nodes, stack, edits, subs, copied>>

\* Nothing is constructed yet; the arena has io.nodes addresses.
InitFor(io) ==
  /\ nodes = [i \in 1..io.nodes |-> BlankNode("free")]
  /\ stack = <<>>
  /\ edits = 0
  /\ subs = [i \in 1..io.nodes |-> [P |-> Null, r |-> Null]]
  /\ copied = [src |-> Null, dst |-> Null]
  /\ last = Call("none", Null, Null, Null, <<>>)
  /\ out = <<>>

(***************************************************************************)
(* Spec: construction and attachment.  Every constructor that leaves the   *)
(* parent unset, the copy and move constructors, the three add_child       *)
(* overloads, scoped builders and scope exit.                              *)
(***************************************************************************)
TreeIO ==
  [nodes |-> MaxNodes, edits |-> 0, calls |-> MaxNodes + 0,
   storages |-> {"auto", "heap"},
   names |-> {Str(<<"a">>)},
   uris |-> {Str(<<"u">>)},
   keys |-> {}, vals |-> {}, texts |-> {}]

Init == InitFor(TreeIO)

Next ==
  \/ NewByName(TreeIO)
  \/ NewSubNode(TreeIO)
  \/ CopyConstruct(TreeIO)
  \/ MoveConstruct(TreeIO)
  \/ AddChildPtr
  \/ AddChildMove(TreeIO)
  \/ AddChildCopy(TreeIO)
  \/ ScopeExit

Spec == Init /\ [][Next]_vars

(***************************************************************************)
(* SpecBuilder: one scope of a function that builds a stanza with nodes    *)
(* and scoped builders of automatic storage, fills them, moves them into   *)
(* one another, and leaves.                                                *)
(***************************************************************************)
BuilderIO ==
  [nodes |-> MaxBuilderNodes, edits |-> MaxBuilderEdits, calls |-> MaxBuilderNodes + MaxBuilderEdits,
   storages |-> {"auto"},
   names |-> {Str(<<"a">>)},
   uris |-> {Str(<<"u">>)},
   keys |-> {}, vals |-> {},
   texts |-> {Str(<<"t">>)}]

BuilderInit == InitFor(BuilderIO)

BuilderNext ==
  \/ NewByName(BuilderIO)
  \/ NewSubNode(BuilderIO)
  \/ NewSubNodeNs(BuilderIO)
  \/ AddChildMove(BuilderIO)
  \/ SetInner(BuilderIO)
  \/ ScopeExit

SpecBuilder == BuilderInit /\ [][BuilderNext]_vars

(***************************************************************************)
(* SpecScopes: several scoped builders alive at once, side by side and     *)
(* nested.                                                                 *)
(***************************************************************************)
ScopeIO ==
  [nodes |-> MaxScopeNodes, edits |-> MaxScopeEdits, calls |-> MaxScopeNodes + MaxScopeEdits,
   storages |-> {"auto"},
   names |-> {Str(<<"a">>)},
   uris |-> {Str(<<"u">>)},
   keys |-> {}, vals |-> {},
   texts |-> {Str(<<"t">>)}]

ScopeInit == InitFor(ScopeIO)

ScopeNext ==
  \/ NewByName(ScopeIO)
  \/ NewSubNode(ScopeIO)
  \/ NewSubNodeNs(ScopeIO)
  \/ SetInner(ScopeIO)
  \/ ScopeExit

SpecScopes == ScopeInit /\ [][ScopeNext]_vars

(***************************************************************************)
(* SpecCopy: heap nodes, copies of them (the copy constructor and          *)
(* add_child by copy) and the calls that change a node.                    *)
(***************************************************************************)
CopyIO ==
  [nodes |-> MaxCopyNodes, edits |-> MaxCopyEdits, calls |-> MaxCopyNodes + MaxCopyEdits,
   storages |-> {"heap"},
   names |-> {Str(<<"a">>)},
   uris |-> {},
   keys |-> {Str(<<"i", "d">>)},
   vals |-> {Str(<<"x">>)},
   texts |-> {Str(<<"t">>)}]

CopyInit == InitFor(CopyIO)

CopyNext ==
  \/ NewByName(CopyIO)
  \/ CopyConstruct(CopyIO)
  \/ AddChildCopy(CopyIO)
  \/ SetAttribute(CopyIO)
  \/ DelTag(CopyIO)
  \/ SetTail(CopyIO)
  \/ AddToTail(CopyIO)
  \/ SetInner(CopyIO)
  \/ AddToInner(CopyIO)
  \/ DeleteAllChildren(CopyIO)

SpecCopy == CopyInit /\ [][CopyNext]_vars

(***************************************************************************)
(* SpecText: stanzas are built on the heap (a root, and children made as   *)
(* they are added), given attributes and text, and serialized.             *)
(***************************************************************************)
Message == Str(<<"m", "e", "s", "s", "a", "g", "e">>)

Body == Str(<<"b", "o", "d", "y">>)

\* "u" '\1' "v" '\1' "i": a namespace that itself holds a separator, and a name.
Embedded == Str(<<"u", "SOH", "v", "SOH", "i">>)

\* The five characters xml_escape replaces, among others.
Reserved == Str(<<"a", "&", "b", "<", "c", ">", "d", "\"", "e", "'", "f">>)

\* A control character and a byte that is not UTF-8.
Latin1 == Str(<<"SOH", "0xE9">>)

TextIO ==
  [nodes |-> MaxTextCalls, edits |-> MaxTextCalls, calls |-> MaxTextCalls,
   storages |-> {"heap"},
   names |-> {Message, Body},
   uris |-> {Str(<<"u", "SOH">>)},
   keys |-> {Str(<<"t", "o">>), Str(<<"i", "d">>)},
   vals |-> {Str(<<"u", "@", "h">>), Reserved},
   texts |-> {Str(<<"h", "i", "<", "3">>), Latin1}]

TextInit == InitFor(TextIO)

TextNext ==
  \/ NewByName(TextIO)
  \/ AddNewChild(TextIO)
  \/ SetAttribute(TextIO)
  \/ Index(TextIO)
  \/ DelTag(TextIO)
  \/ SetTail(TextIO)
  \/ AddToTail(TextIO)
  \/ SetInner(TextIO)
  \/ AddToInner(TextIO)
  \/ ToString

SpecText == TextInit /\ [][TextNext]_vars

(***************************************************************************)
(* SpecNames: the four constructors and set_name, called with names that   *)
(* hold no separator, one, or two.                                         *)
(***************************************************************************)
NameIO ==
  [nodes |-> MaxNameNodes, edits |-> MaxNameEdits, calls |-> MaxNameNodes + MaxNameEdits,
   storages |-> {"heap"},
   names |-> {Str(<<"i">>), Str(<<"u", "SOH", "i">>), Embedded, Str(<<"SOH">>)},
   uris |-> {Str(<<"u">>)},
   keys |-> {}, vals |-> {}, texts |-> {}]

NameInit == InitFor(NameIO)

NameNext ==
  \/ NewByName(NameIO)
  \/ NewByNameParent(NameIO)
  \/ NewByNsName(NameIO)
  \/ NewByNsNameParent(NameIO)
  \/ SetName(NameIO)

SpecNames == NameInit /\ [][NameNext]_vars

(***************************************************************************)
(* Properties.                                                             *)
(***************************************************************************)
\* The subtree of a in arena na and the subtree of b in arena nb have the same
\* names, attributes, inner, tail and children, in order, all the way down.
RECURSIVE TreeEq(_, _, _, _)
TreeEq(na, a, nb, b) ==
  /\ na[a].name = nb[b].name
  /\ na[a].attributes = nb[b].attributes
  /\ na[a].inner = nb[b].inner
  /\ na[a].tail = nb[b].tail
  /\ Len(na[a].children) = Len(nb[b].children)
  /\ \A i \in 1..Len(na[a].children) :
       TreeEq(na, na[a].children[i], nb, nb[b].children[i])

\* Node a of arena na holds the very fields node b of arena nb holds.
SameFields(na, a, nb, b) ==
  /\ na[a].name = nb[b].name
  /\ na[a].attributes = nb[b].attributes
  /\ na[a].inner = nb[b].inner
  /\ na[a].tail = nb[b].tail
  /\ na[a].children = nb[b].children

AddChildOps == {"add_child(unique_ptr)", "add_child(&&)", "add_child(const&)"}

\* The number of times c occurs in the children vectors of live nodes.
Occurrences(ns, c) ==
  Cardinality({<<p, i>> \in Live(ns) \X (1..Cardinality(DOMAIN ns)) :
                 i <= Len(ns[p].children) /\ ns[p].children[i] = c})

\* No node is its own descendant, and no node is owned twice.
Forest(ns) ==
  /\ \A n \in Live(ns) : n \notin Below(ns, n)
  /\ \A n \in Live(ns) : Occurrences(ns, n) <= 1

\* C1: whichever overload of add_child is called, for every receiver P and
\* every argument c, the returned node r has parent P, is appended to P's
\* children (the earlier children unchanged), and carries the name,
\* attributes, inner, tail and children c had (a copy's children are copies).
C1_AddChildAppendsAndCarries ==
  [][last'.op \in AddChildOps =>
       LET P == last'.P
           c == last'.c
           r == last'.r
       IN /\ nodes'[r].parent = P
          /\ nodes'[P].children = Append(nodes[P].children, r)
          /\ IF last'.op = "add_child(const&)"
             THEN TreeEq(nodes', r, nodes, c)
             ELSE SameFields(nodes', r, nodes, c)]_vars

\* C8: the children relation is a forest in every state, whatever was
\* constructed, copied and added, in whichever form.
C8_ChildrenAreAForest == Forest(nodes)

\* Every child's parent is the node whose children vector holds it.
ParentsConsistent(ns) ==
  \A n \in Live(ns) : \A i \in 1..Len(ns[n].children) :
    get_parent(ns, ns[n].children[i]) = n

\* C9: parent back-references are consistent in every state: no call made on
\* a tree whose back-references are consistent leaves a child whose parent
\* is not the node that holds it.  (Stated on the states where C8's forest
\* holds, so that no cycle is involved.)
C9_ParentsStayConsistent ==
  [][Forest(nodes) /\ ParentsConsistent(nodes) => ParentsConsistent(nodes')]_vars

(***************************************************************************)
(* Scoped builders.                                                        *)
(***************************************************************************)
\* A live XmlSubNode is in no children vector and has no parent.
BuilderDetached(ns) ==
  \A s \in SubNodes(ns) : ~Owned(ns, s) /\ get_parent(ns, s) = Null

\* The nodes of ns' that ns does not have.
NewNodes(ns, ns2) == Made(ns2) \ Made(ns)

\* C2: a live XmlSubNode is in no children vector and has no parent; the
\* step that ends its life appends exactly one new node to the children of
\* parent_to_add (the earlier children unchanged), with that node as parent
\* and with the name, attributes, inner, tail and children the builder had.
C2_BuilderAttachesOnceAtScopeExit ==
  [][/\ BuilderDetached(nodes')
     /\ \A s \in SubNodes(nodes) :
          s \notin Live(nodes') =>
            LET P == nodes[s].parent_to_add
                r == NextFree(nodes)
            IN /\ NewNodes(nodes, nodes') = {r}
               /\ nodes'[r].st = "heap"
               /\ nodes'[P].children = Append(nodes[P].children, r)
               /\ Occurrences(nodes', r) = 1
               /\ get_parent(nodes', r) = P
               /\ SameFields(nodes', r, nodes, s)
               /\ subs[s].r = Null /\ subs'[s].r = r]_vars

\* A builder that had inner text and a child has just been attached.
C2_Witness ==
  /\ last.op = "~XmlSubNode"
  /\ nodes[last.c].st = "dead"
  /\ has_children(nodes, last.r)
  /\ nodes[last.r].inner # <<>>
  /\ get_last_child(nodes, last.P) = last.r

\* The position of node c in the vector kids (0 when absent).
IndexOf(kids, c) ==
  IF c \in Range(kids) THEN SetMin({i \in 1..Len(kids) : kids[i] = c}) ELSE 0

\* The XmlSubNodes constructed so far, alive or not.
Builders == {s \in DOMAIN subs : subs[s].P # Null}

\* Builder s2 was constructed while builder s1 was alive.
Overlap(s1, s2) ==
  /\ s1 \in Builders /\ s2 \in Builders /\ s1 < s2
  /\ subs[s1].r = Null \/ subs[s1].r > s2

\* C10: of two builders alive together, the one constructed last is attached
\* first; with the same parent P, its node comes first in P.children; a
\* builder whose parent_to_add is an enclosing builder is attached to it
\* before the enclosing builder is attached, and so ends among the children
\* of the enclosing builder's node.
C10_BuildersAttachInReverseOrder ==
  \A s1 \in DOMAIN subs, s2 \in DOMAIN subs :
    Overlap(s1, s2) /\ subs[s1].r # Null =>
      LET r1 == subs[s1].r
          r2 == subs[s2].r
          P == subs[s1].P
      IN /\ r2 # Null /\ r2 < r1
         /\ subs[s2].P = P /\ P \in Live(nodes) =>
              /\ IndexOf(nodes[P].children, r2) > 0
              /\ IndexOf(nodes[P].children, r2) < IndexOf(nodes[P].children, r1)
         /\ subs[s2].P = s1 /\ r1 \in Live(nodes) =>
              r2 \in Range(nodes[r1].children)

\* Two builders for one parent, alive together, have both been attached.
C10_Witness ==
  \E s1 \in Builders, s2 \in Builders :
    /\ Overlap(s1, s2)
    /\ subs[s1].P = subs[s2].P
    /\ subs[s1].r # Null /\ subs[s2].r # Null
    /\ subs[s1].P \in Live(nodes)
    /\ Len(nodes[subs[s1].P].children) >= 2

(***************************************************************************)
(* Copies.                                                                 *)
(***************************************************************************)
CopyOps == {"XmlNode(const&)", "add_child(const&)"}

\* The calls that change the node they are made on.
MutationOps ==
  {"set_attribute", "operator[]", "del_tag", "set_tail", "add_to_tail",
   "set_inner", "add_to_inner", "set_name", "delete_all_children",
   "add_child(const&)"}

\* The step is a copy of c: the copy r has a subtree equal to c's, made of
\* objects constructed by this step, and c's subtree is as it was (but for
\* the receiver of add_child, when the receiver is in it).
CopyIsDeep ==
  last'.op \in CopyOps =>
    LET c == last'.c
        r == last'.r
    IN /\ r = NextFree(nodes)
       /\ TreeEq(nodes', r, nodes, c)
       /\ Tree(nodes', r) \subseteq FreeIds(nodes)
       /\ Tree(nodes', r) \cap Tree(nodes, c) = {}
       /\ \A m \in Tree(nodes, c) \ {last'.P} : nodes'[m] = nodes[m]

\* The step is a mutation made on a node of a's subtree, and it leaves every
\* node of b's subtree as it was.
LeavesAlone(a, b) ==
  last'.op \in MutationOps /\ last'.P \in Tree(nodes, a) =>
    \A m \in Tree(nodes, b) : nodes'[m] = nodes[m]

CopyAlive == copied.src \in Live(nodes) /\ copied.dst \in Live(nodes)

C3_IndependenceAsStated ==
  [][CopyAlive =>
          /\ LeavesAlone(copied.dst, copied.src)
          /\ LeavesAlone(copied.src, copied.dst)]_vars

SingleStringOps == {"XmlNode(name)", "XmlNode(name,parent)"}

NamespaceOps == {"XmlNode(xmlns,name)", "XmlNode(xmlns,name,parent)"}

HasSep(s) == Sep \in Range(s)

\* C7, as the code has it: a constructor given one string nm stores nm as
\* the name when nm has no separator; otherwise nm is xmlns, separator and
\* name, the name without separator (so the split is at the last one).  The
\* constructors given a namespace and a name, and set_name, store the name
\* as given.  No call changes the name of another node.
C7_NameIsSplitAtLastSeparator ==
  [][/\ last'.op \in SingleStringOps =>
          LET this == nodes'[last'.r]
              nm == last'.arg
          IN /\ ~HasSep(this.name)
             /\ IF HasSep(nm)
                THEN /\ HasKey(this.attributes, Xmlns)
                     /\ nm = MapGet(this.attributes, Xmlns) \o <<Sep>> \o this.name
                ELSE this.name = nm /\ this.attributes = <<>>
     /\ last'.op \in NamespaceOps =>
          /\ get_name(nodes', last'.r) = last'.arg
          /\ HasKey(nodes'[last'.r].attributes, Xmlns)
     /\ last'.op = "set_name" => get_name(nodes', last'.P) = last'.arg
     /\ \A m \in Live(nodes) :
          m # last'.P => get_name(nodes', m) = get_name(nodes, m)]_vars

\* C7, as stated: no live node's name holds the separator.
C7_AsStated == \A n \in Live(nodes) : ~HasSep(get_name(nodes, n))

\* A node has just been constructed from "u" '\1' "v" '\1' "i".
C7_Witness ==
  /\ last.op \in SingleStringOps
  /\ last.arg = Embedded
  /\ get_name(nodes, last.r) = Str(<<"i">>)
  /\ get_tag(nodes, last.r, Xmlns) = Str(<<"u", "SOH", "v">>)

(***************************************************************************)
(* Serialization.  After n.to_string(), out is the text returned and       *)
(* last.P is n; the tree is as it was.                                     *)
(***************************************************************************)
IsPrefix(p, s) == Len(p) <= Len(s) /\ SubSeq(s, 1, Len(p)) = p

EndsWith(s, p) == Len(p) <= Len(s) /\ SubSeq(s, Len(s) - Len(p) + 1, Len(s)) = p

\* The positions of s where p occurs.
Places(s, p) == {i \in 1..(Len(s) - Len(p) + 1) : SubSeq(s, i, i + Len(p) - 1) = p}

Count(s, p) == Cardinality(Places(s, p))

Rendered == last.op = "to_string"

\* The node's element is written as <name .../>.
Childless(ns, n) == ~has_children(ns, n) /\ ns[n].inner = <<>>

\* C4, as the code has it: the rendering of a node without children and
\* inner text is "<" name, the attributes and "/>", then the sanitized tail:
\* it ends in "/>" when the sanitized tail is empty; it has no closing tag.
C4_SelfClosedThenTail ==
  Rendered /\ Childless(nodes, last.P) =>
    LET this == nodes[last.P]
    IN /\ IsPrefix(Open \o this.name, out)
       /\ EndsWith(out, SelfClose \o sanitize(this.tail))
       /\ Count(out, SelfClose) = 1
       /\ Count(out, OpenEnd) = 0
       /\ sanitize(this.tail) = <<>> => EndsWith(out, SelfClose)

\* C4, as stated: whatever the tail, the rendering ends in "/>".
C4_AsStated ==
  Rendered /\ Childless(nodes, last.P) =>
    EndsWith(out, SelfClose) /\ Count(out, OpenEnd) = 0

\* A node with an attribute and a tail, without children and inner text,
\* has been rendered.
C4_Witness ==
  /\ Rendered
  /\ Childless(nodes, last.P)
  /\ nodes[last.P].attributes # <<>>
  /\ sanitize(nodes[last.P].tail) # <<>>

OpeningOf(nm) == Open \o nm

ClosingOf(nm) == OpenEnd \o nm \o Close

\* The renderings of n's children, one after the other.
ChildrenText(ns, n) ==
  Concat([i \in 1..Len(ns[n].children) |-> to_string(ns, ns[n].children[i])])

\* C5, as the code has it: the rendering of a node with a child or inner
\* text begins with "<name", and after the opening tag and the sanitized
\* inner text come the renderings of the children in the order of the
\* children vector, then "</name>" and the sanitized tail.  "<name" occurs
\* once for every node of the subtree whose name begins with n's name, and
\* "</name>" once for every node of the subtree of that name that is not
\* self-closed: once each when no descendant has such a name.  (A child is
\* constructed as it is attached, so the children vector is in the order
\* of attachment when its addresses ascend.)
C5_OneElementAroundChildrenInOrder ==
  Rendered /\ ~Childless(nodes, last.P) =>
    LET n == last.P
        nm == get_name(nodes, n)
        after == ChildrenText(nodes, n) \o ClosingOf(nm) \o sanitize(nodes[n].tail)
        before == SubSeq(out, 1, Len(out) - Len(after))
    IN /\ EndsWith(out, after)
       /\ \A i \in 1..Len(nodes[n].children), j \in 1..Len(nodes[n].children) :
            i < j => nodes[n].children[i] < nodes[n].children[j]
       /\ IsPrefix(OpeningOf(nm), before)
       /\ EndsWith(before, Close \o sanitize(nodes[n].inner))
       /\ Count(before, Open) = 1
       /\ Count(out, OpeningOf(nm)) =
            Cardinality({m \in Tree(nodes, n) : IsPrefix(nm, get_name(nodes, m))})
       /\ Count(out, ClosingOf(nm)) =
            Cardinality({m \in Tree(nodes, n) :
                           get_name(nodes, m) = nm /\ ~Childless(nodes, m)})
       /\ (\A m \in Below(nodes, n) : ~IsPrefix(nm, get_name(nodes, m))) =>
            Count(out, OpeningOf(nm)) = 1 /\ Count(out, ClosingOf(nm)) = 1

\* C5, as stated: whatever is below n, "<name" and "</name>" occur once.
C5_AsStated ==
  Rendered /\ ~Childless(nodes, last.P) =>
    LET nm == get_name(nodes, last.P)
    IN /\ Count(out, OpeningOf(nm)) = 1
       /\ Count(out, ClosingOf(nm)) = 1
       /\ EndsWith(out, ChildrenText(nodes, last.P) \o ClosingOf(nm)
                          \o sanitize(nodes[last.P].tail))

\* A node with two children of different names, the second of its own
\* name, has been rendered.
C5_Witness ==
  /\ Rendered
  /\ Len(nodes[last.P].children) = 2
  /\ get_name(nodes, nodes[last.P].children[1]) # get_name(nodes, last.P)
  /\ get_name(nodes, nodes[last.P].children[2]) = get_name(nodes, last.P)

\* The keys of a map, and the least of a set of keys.
Keys(m) == {m[i].key : i \in 1..Len(m)}

LeastKey(K) == CHOOSE k \in K : \A j \in K \ {k} : StrLess(k, j)

\* escaped(text) of the reference rendering: xml_escape alone when plain,
\* the whole of sanitize otherwise.
Escaped(plain, text) == IF plain THEN xml_escape(text) ELSE sanitize(text)

\* " key='escaped(value)'" for every key of K, in ascending order.
RECURSIVE ReferenceAttributes(_, _, _)
ReferenceAttributes(plain, m, K) ==
  IF K = {} THEN <<>>
  ELSE LET k == LeastKey(K)
       IN Space \o k \o EqQuote \o Escaped(plain, MapGet(m, k)) \o Quote
          \o ReferenceAttributes(plain, m, K \ {k})

\* The reference rendering of the subtree of n.
RECURSIVE Reference(_, _, _)
RECURSIVE ReferenceChildren(_, _, _, _)
ReferenceChildren(plain, ns, kids, i) ==
  IF i > Len(kids) THEN <<>>
  ELSE Reference(plain, ns, kids[i]) \o ReferenceChildren(plain, ns, kids, i + 1)

Reference(plain, ns, n) ==
  Open \o ns[n].name
  \o ReferenceAttributes(plain, ns[n].attributes, Keys(ns[n].attributes))
  \o (IF ns[n].children = <<>> /\ ns[n].inner = <<>>
      THEN SelfClose
      ELSE Close \o Escaped(plain, ns[n].inner)
           \o ReferenceChildren(plain, ns, ns[n].children, 1)
           \o OpenEnd \o ns[n].name \o Close)
  \o Escaped(plain, ns[n].tail)

\* <message to='u@h'><body>hi&lt;3</body></message>
ExampleText ==
  Str(<<"<", "m", "e", "s", "s", "a", "g", "e", " ", "t", "o", "=", "'", "u", "@", "h", "'", ">",
        "<", "b", "o", "d", "y", ">", "h", "i", "&", "l", "t", ";", "3", "<", "/", "b", "o", "d", "y", ">",
        "<", "/", "m", "e", "s", "s", "a", "g", "e", ">">>)

\* n is a message with the one attribute to="u@h" and the one child body,
\* whose inner text is "hi<3".
IsExample(ns, n) ==
  /\ ns[n].name = Message
  /\ ns[n].attributes = <<[key |-> Str(<<"t", "o">>), val |-> Str(<<"u", "@", "h">>)]>>
  /\ ns[n].inner = <<>> /\ ns[n].tail = <<>>
  /\ Len(ns[n].children) = 1
  /\ LET b == ns[n].children[1]
     IN /\ ns[b].name = Body
        /\ ns[b].attributes = <<>> /\ ns[b].children = <<>>
        /\ ns[b].inner = Str(<<"h", "i", "<", "3">>) /\ ns[b].tail = <<>>

\* C6, as the code has it: to_string is the reference rendering (attributes
\* in ascending key order, whatever the order they were set in) in which
\* escaped(text) is sanitize(text): the text made UTF-8 when it is not
\* (read as ISO-8859-1), without the characters XML 1.0 forbids, and then
\* with & < > " ' replaced.  The message of the example renders as stated.
C6_RendersAsReferenceWithSanitize ==
  Rendered =>
    /\ out = Reference(FALSE, nodes, last.P)
    /\ IsExample(nodes, last.P) => out = ExampleText

\* C6, as stated: escaped(text) replaces the five characters and keeps
\* every other byte.
C6_AsStated ==
  Rendered =>
    /\ out = Reference(TRUE, nodes, last.P)
    /\ IsExample(nodes, last.P) => out = ExampleText

\* The message of the example has been rendered.
C6_Witness == Rendered /\ IsExample(nodes, last.P) /\ out = ExampleText

====
